---- MODULE Spec2Model ----
(***************************************************************************)
(* A model of pyforestplot/graph_utils.py: the functions that decorate an  *)
(* already drawn forest plot (tick labels, row shading, right-hand text,   *)
(* x-axis limits).  The matplotlib Axes is the state; every function of    *)
(* the module that the properties below talk about is one action.          *)
(*                                                                         *)
(* Conventions                                                             *)
(*  - a Python str is a sequence of one-character strings;                 *)
(*  - a cell of a text column is a record [kind, s]: kind "str" for a str, *)
(*    kind "float" for the missing value NaN;                              *)
(*  - a cell of a numeric column is a record [nan, v];                     *)
(*  - an optional argument is modelled by "is not None" (a BOOLEAN);       *)
(*  - x positions of texts are kept in hundredths (x100), y positions of   *)
(*    bands in halves (lo2, hi2), so that 1.05 and 0.5 stay integers;      *)
(*  - the artists of the Axes (patches, texts) are kept as sets: drawing   *)
(*    the same artist twice superposes it on itself.                       *)
(***************************************************************************)
EXTENDS Integers, Sequences, FiniteSets, TLC

VARIABLES
    dataframe,    \* the intermediate DataFrame: a sequence of rows
    args,         \* the arguments the caller passes to every function
    yticklabels,  \* ax.get_yticklabels() / yax.majorTicks: one label per row
    tickpad,      \* the pad of the y-axis ticks (yax.set_tick_params)
    xlim,         \* ax.get_xlim()
    xaxis,        \* x-axis tick labels, locator and label size
    bands,        \* the axhspan patches on the Axes
    texts,        \* the ax.text artists on the Axes
    call          \* the most recent call: what it was given, drew and returned

vars == <<dataframe, args, yticklabels, tickpad, xlim, xaxis, bands, texts, call>>

(***************************************************************************)
(* Bounds of the model.                                                    *)
(***************************************************************************)
MaxRows == 5        \* rows of the DataFrame in the row-decoration scenario
MaxTextRows == 3    \* rows of the DataFrame in the annotation scenario
MaxLayoutRows == 3  \* rows of the DataFrame in the layout scenario

(***************************************************************************)
(* Python values.                                                          *)
(***************************************************************************)
Str(s) == [kind |-> "str", s |-> s]
NaN == [kind |-> "float", s |-> <<>>]
Num(v) == [nan |-> FALSE, v |-> v]
NumNaN == [nan |-> TRUE, v |-> 0]

\* pd.isna on a cell of a text column
IsNa(v) == v.kind = "float"

\* isinstance(v, str)
IsStr(v) == v.kind = "str"

LowerChar(c) ==
    CASE c = "A" -> "a"
      [] c = "B" -> "b"
      [] c = "X" -> "x"
      [] OTHER -> c

\* str.lower()
Lower(s) == [i \in 1..Len(s) |-> LowerChar(s[i])]

IsSpace(c) == c = " "

RECURSIVE LStrip(_)
LStrip(s) == IF s # <<>> /\ IsSpace(Head(s)) THEN LStrip(Tail(s)) ELSE s

RECURSIVE RStrip(_)
RStrip(s) ==
    IF s # <<>> /\ IsSpace(s[Len(s)]) THEN RStrip(SubSeq(s, 1, Len(s) - 1)) ELSE s

\* str.strip()
Strip(s) == RStrip(LStrip(s))

InSeq(x, q) == \E i \in 1..Len(q) : q[i] = x

RECURSIVE UniqueFrom(_, _)
UniqueFrom(col, seen) ==
    IF col = <<>> THEN seen
    ELSE IF InSeq(Head(col), seen) THEN UniqueFrom(Tail(col), seen)
    ELSE UniqueFrom(Tail(col), Append(seen, Head(col)))

\* Series.unique(): the distinct values in order of first appearance
Unique(col) == UniqueFrom(col, <<>>)

\* dataframe[name] for the columns the functions read
Column(df, name) ==
    [i \in 1..Len(df) |->
        CASE name = "yticklabel" -> df[i].yticklabel
          [] name = "group" -> df[i].group
          [] name = "ll" -> df[i].ll
          [] name = "hl" -> df[i].hl
          [] name = "formatted_pval" -> df[i].formatted_pval
          [] OTHER -> df[i].yticklabel2]

RECURSIVE SeqsUpTo(_, _)
SeqsUpTo(S, n) ==
    IF n = 0 THEN {<<>>}
    ELSE LET shorter == SeqsUpTo(S, n - 1)
         IN shorter \cup {Append(q, x) : q \in {r \in shorter : Len(r) = n - 1}, x \in S}

(***************************************************************************)
(* The Axes as the plotting calls leave it.                                *)
(***************************************************************************)
\* the tick label pandas' barh creates for a row
NewTick(text) ==
    [text |-> text, fontweight |-> "normal", fontsize |-> "rc",
     ha |-> "right", fontfamily |-> "rc"]

TicksOf(df) == [i \in 1..Len(df) |-> NewTick(df[i].yticklabel)]

NoCall ==
    [op |-> "none", raised |-> "", ret |-> <<>>,
     drawn |-> {}, pad |-> 0, before |-> <<>>]

Called(op, raised, ret, drawn, pad, before) ==
    [op |-> op, raised |-> raised, ret |-> ret,
     drawn |-> drawn, pad |-> pad, before |-> before]

DefaultXaxis == [ticklabels |-> "auto", locator |-> "auto", labelsize |-> "rc"]

(***************************************************************************)
(* format_grouplabels                                                      *)
(***************************************************************************)
\* the test of the inner loop; gr.lower() raises AttributeError, which the
\* loop swallows, when gr is not a str
GroupLabelMatches(gr, text) == IsStr(gr) /\ Lower(gr.s) = Strip(Lower(text))

FormatGroupTick(tick, uniq, kw) ==
    IF \E g \in 1..Len(uniq) : GroupLabelMatches(uniq[g], tick.text)
    THEN [tick EXCEPT !.fontweight = kw.fontweight, !.fontsize = kw.size]
    ELSE tick

format_grouplabels ==
    /\ yticklabels' =
         IF args.groupvar
         THEN LET uniq == Unique(Column(dataframe, "group"))
              IN [i \in 1..Len(yticklabels) |->
                     FormatGroupTick(yticklabels[i], uniq, args.grouplab)]
         ELSE yticklabels
    /\ call' = Called("format_grouplabels", "", <<>>, {}, 0, yticklabels)
    /\ UNCHANGED <<dataframe, args, tickpad, xlim, xaxis, bands, texts>>

(***************************************************************************)
(* format_tableheader                                                      *)
(***************************************************************************)
HeadersExist == args.annoteheaders \/ args.right_annoteheaders

format_tableheader ==
    /\ IF HeadersExist
       THEN LET nlast == Len(yticklabels)
            IN IF nlast = 0
               THEN \* ax.get_yticklabels()[-1] of an empty list
                    /\ yticklabels' = yticklabels
                    /\ call' = Called("format_tableheader", "IndexError", <<>>, {}, 0,
                                      yticklabels)
               ELSE /\ yticklabels' =
                         [yticklabels EXCEPT
                            ![nlast].fontweight = args.tableheader.fontweight,
                            ![nlast].fontsize = args.tableheader.size]
                    /\ call' = Called("format_tableheader", "", <<>>, {}, 0, yticklabels)
       ELSE /\ yticklabels' = yticklabels
            /\ call' = Called("format_tableheader", "", <<>>, {}, 0, yticklabels)
    /\ UNCHANGED <<dataframe, args, tickpad, xlim, xaxis, bands, texts>>

(***************************************************************************)
(* draw_alt_row_colors                                                     *)
(***************************************************************************)
CounterStart == 1

CounterResetToStart == CounterStart

CounterReset == 2

ShadeOnOdd(counter) == counter % 2 = 1

\* "color if even row"
ShadeRow(counter) == counter % 2 = 0

NeverHeaderTick(headers_exist, ix, n) == FALSE

\* the break of the loop: the last tick is the table header
IsHeaderTick(headers_exist, ix, n) == headers_exist /\ ix = n - 1

\* ax.axhspan(ix - 0.5, ix + 0.5, color=row_color, alpha=0.08, zorder=0)
Band(ix) == [lo2 |-> 2 * ix - 1, hi2 |-> 2 * ix + 1, color |-> args.row_color]

\* the list comprehension that builds `groups`
RECURSIVE GroupNames(_)
GroupNames(uniq) ==
    IF uniq = <<>> THEN <<>>
    ELSE IF IsStr(Head(uniq))
         THEN <<Lower(Strip(Head(uniq).s))>> \o GroupNames(Tail(uniq))
         ELSE GroupNames(Tail(uniq))

IsGroupRow(tick, groups) == InSeq(Strip(Lower(tick.text)), groups)

\* the loop over the ticks, from tick ix (0-based) on: the bands it draws
RECURSIVE AltRowLoop(_, _, _, _, _)
AltRowLoop(ticks, ix, counter, groups, headers_exist) ==
    IF ix >= Len(ticks) THEN {}
    ELSE IF IsHeaderTick(headers_exist, ix, Len(ticks)) THEN {}
    ELSE IF IsGroupRow(ticks[ix + 1], groups)
         THEN AltRowLoop(ticks, ix + 1, CounterReset, groups, headers_exist)
         ELSE (IF ShadeRow(counter) THEN {Band(ix)} ELSE {})
              \cup AltRowLoop(ticks, ix + 1, counter + 1, groups, headers_exist)

Groups == IF args.groupvar THEN GroupNames(Unique(Column(dataframe, "group"))) ELSE <<>>

draw_alt_row_colors ==
    LET drawn == AltRowLoop(yticklabels, 0, CounterStart, Groups, HeadersExist)
    IN /\ bands' = bands \cup drawn
       /\ call' = Called("draw_alt_row_colors", "", <<>>, drawn, 0, yticklabels)
       /\ UNCHANGED <<dataframe, args, yticklabels, tickpad, xlim, xaxis, texts>>

(***************************************************************************)
(* The row-decoration scenario: a grouped table, its ticks as drawn, and   *)
(* the three decorating functions called in any order.                     *)
(***************************************************************************)
TextA == <<"A">>
TextX == <<"x">>
TextB == <<"B", " ">>

DecorRows ==
    { [yticklabel |-> TextA, group |-> Str(<<"a">>)],
      [yticklabel |-> TextX, group |-> NaN],
      [yticklabel |-> TextB, group |-> Str(<<" ", "b">>)] }

FullRow(r) ==
    [yticklabel |-> r.yticklabel, group |-> r.group, ll |-> NumNaN, hl |-> NumNaN,
     formatted_pval |-> NaN, yticklabel2 |-> NaN]

DefaultStyle == [fontweight |-> "bold", size |-> "10"]

DecorArgs ==
    { [groupvar |-> gv, annoteheaders |-> ah, right_annoteheaders |-> rh,
       grouplab |-> [fontweight |-> "heavy", size |-> "12"],
       tableheader |-> DefaultStyle, row_color |-> "black",
       pval |-> FALSE, pval_title |-> TRUE, flush |-> FALSE, xticks |-> FALSE] :
      gv \in BOOLEAN, ah \in BOOLEAN, rh \in BOOLEAN }

InitDecor ==
    /\ dataframe \in {[i \in 1..Len(q) |-> FullRow(q[i])] : q \in SeqsUpTo(DecorRows, MaxRows)}
    /\ args \in DecorArgs
    /\ yticklabels = TicksOf(dataframe)
    /\ tickpad = 0
    /\ xlim = <<0, 1>>
    /\ xaxis = DefaultXaxis
    /\ bands = {}
    /\ texts = {}
    /\ call = NoCall

NextDecor == format_grouplabels \/ format_tableheader \/ draw_alt_row_colors

SpecDecor == InitDecor /\ [][NextDecor]_vars

(***************************************************************************)
(* Properties of the row decoration.                                       *)
(***************************************************************************)
NTicks == Len(yticklabels)

AfterAltRows == call.op = "draw_alt_row_colors"

\* tick ix (0-based) got a band spanning (ix - 0.5, ix + 0.5) in the last call
Shaded(ix) == \E b \in call.drawn : b.lo2 = 2 * ix - 1 /\ b.hi2 = 2 * ix + 1

\* tick ix (0-based) is a group row for draw_alt_row_colors
GroupRowAt(ix) == IsGroupRow(yticklabels[ix + 1], Groups)

\* tick ix (0-based) is an ordinary row that follows a group row and that the
\* loop reaches (it is not the table header)
FollowsGroupRow(ix) ==
    /\ ix >= 1
    /\ ix < NTicks
    /\ GroupRowAt(ix - 1)
    /\ ~GroupRowAt(ix)
    /\ ~(HeadersExist /\ ix = NTicks - 1)

\* the ticks of the example: group A, x1, x2, group B, x3, no header row
ExampleTicks ==
    /\ NTicks = 5
    /\ [i \in 1..5 |-> yticklabels[i].text] = <<TextA, TextX, TextX, TextB, TextX>>
    /\ args.groupvar
    /\ ~HeadersExist

ShadedTicks == {ix \in 0..NTicks - 1 : Shaded(ix)}

\* C1 as stated: the shading parity restarts at each group row so that the
\* ordinary row right after a group row is unshaded, and the example is shaded
\* [unshaded, unshaded, shaded, unshaded, unshaded].
C1_RowAfterGroupUnshaded ==
    AfterAltRows =>
        /\ \A ix \in 0..NTicks - 1 : FollowsGroupRow(ix) => ~Shaded(ix)
        /\ ExampleTicks => ShadedTicks = {2}

\* C1 amended: the shading parity restarts at each group row so that the
\* ordinary row right after a group row is shaded, however many rows preceded
\* the group row; the example is shaded
\* [unshaded, shaded, unshaded, unshaded, shaded].
C1_RowAfterGroupShaded ==
    AfterAltRows =>
        /\ \A ix \in 0..NTicks - 1 : FollowsGroupRow(ix) => Shaded(ix)
        /\ ExampleTicks => ShadedTicks = {1, 4}

C1_Witness ==
    /\ AfterAltRows
    /\ ExampleTicks
    /\ ShadedTicks = {1, 4}
    /\ FollowsGroupRow(4)

NoGroupRow == \A ix \in 0..NTicks - 1 : ~GroupRowAt(ix)

\* C2: with no group row and no table header, tick ix is shaded with a band
\* spanning (ix - 0.5, ix + 0.5) exactly when ix is odd, for every number of
\* ticks n >= 1, and no other band is drawn.
C2_AlternatesFromUnshaded ==
    (AfterAltRows /\ NTicks >= 1 /\ NoGroupRow /\ ~HeadersExist) =>
        /\ \A ix \in 0..NTicks - 1 : Shaded(ix) <=> ix % 2 = 1
        /\ \A b \in call.drawn :
              \E ix \in 0..NTicks - 1 : b.lo2 = 2 * ix - 1 /\ b.hi2 = 2 * ix + 1

C2_Witness ==
    /\ AfterAltRows
    /\ NTicks = 5
    /\ NoGroupRow
    /\ ~HeadersExist
    /\ ShadedTicks = {1, 3}

\* a band of the Axes covers the position of tick ix
Covered(ix) == \E b \in bands : b.lo2 <= 2 * ix /\ 2 * ix <= b.hi2

HasHeaderStyle(tick) ==
    /\ tick.fontweight = args.tableheader.fontweight
    /\ tick.fontsize = args.tableheader.size

HasGroupStyle(tick) ==
    /\ tick.fontweight = args.grouplab.fontweight
    /\ tick.fontsize = args.grouplab.size

\* C3: when a table header row exists, no band drawn by draw_alt_row_colors
\* covers the last tick, whatever its text and the counter, and after
\* format_tableheader (also when format_grouplabels styled the tick before) the
\* last tick carries the table-header weight and size.
C3_HeaderRowUnshadedAndStyled ==
    (HeadersExist /\ NTicks >= 1) =>
        /\ ~Covered(NTicks - 1)
        /\ (call.op = "format_tableheader" => HasHeaderStyle(yticklabels[NTicks]))

C3_Witness ==
    /\ HeadersExist
    /\ NTicks >= 3
    /\ call.op = "format_tableheader"
    /\ HasGroupStyle(call.before[NTicks])
    /\ GroupRowAt(NTicks - 1)
    /\ HasHeaderStyle(yticklabels[NTicks])
    /\ Covered(NTicks - 2)

\* C10 as stated: format_grouplabels gives a tick the group weight and size
\* exactly when the tick's trimmed, lower-cased text equals the trimmed,
\* lower-cased form of some string group value, i.e. it bolds the ticks that
\* draw_alt_row_colors treats as group rows.
C10_BoldsExactlyGroupRows ==
    call.op = "format_grouplabels" =>
        \A ix \in 0..NTicks - 1 :
            (yticklabels[ix + 1] # call.before[ix + 1] \/ HasGroupStyle(yticklabels[ix + 1]))
                <=> GroupRowAt(ix)

(***************************************************************************)
(* format_xticks                                                           *)
(***************************************************************************)
RECURSIVE ColMinFrom(_, _)
ColMinFrom(col, acc) ==
    IF col = <<>> THEN acc
    ELSE IF Head(col).nan THEN ColMinFrom(Tail(col), acc)
    ELSE IF acc.nan \/ Head(col).v < acc.v THEN ColMinFrom(Tail(col), Head(col))
    ELSE ColMinFrom(Tail(col), acc)

\* Series.min(): the least value that is not missing, NaN when there is none
ColMin(col) == ColMinFrom(col, NumNaN)

RECURSIVE ColMaxFrom(_, _)
ColMaxFrom(col, acc) ==
    IF col = <<>> THEN acc
    ELSE IF Head(col).nan THEN ColMaxFrom(Tail(col), acc)
    ELSE IF acc.nan \/ Head(col).v > acc.v THEN ColMaxFrom(Tail(col), Head(col))
    ELSE ColMaxFrom(Tail(col), acc)

\* Series.max(): the greatest value that is not missing, NaN when there is none
ColMax(col) == ColMaxFrom(col, NumNaN)

XLowerLimit(df) == ColMin(Column(df, "ll"))

XUpperLimitOfLow(df) == ColMax(Column(df, "ll"))

XUpperLimit(df) == ColMax(Column(df, "hl"))

format_xticks ==
    LET xlowerlimit == XLowerLimit(dataframe)
        xupperlimit == XUpperLimit(dataframe)
    IN /\ IF xlowerlimit.nan \/ xupperlimit.nan
          THEN \* ax.set_xlim refuses a limit that is NaN
               /\ call' = Called("format_xticks", "ValueError", <<>>, {}, 0, xlim)
               /\ UNCHANGED <<xlim, xaxis>>
          ELSE /\ xlim' = <<xlowerlimit.v, xupperlimit.v>>
               /\ xaxis' =
                    IF args.xticks
                    THEN [xaxis EXCEPT !.ticklabels = "xticks", !.labelsize = "xtick_size"]
                    ELSE [xaxis EXCEPT !.locator = "MaxNLocator(nticks)",
                                       !.labelsize = "xtick_size"]
               /\ call' = Called("format_xticks", "", <<>>, {}, 0, xlim)
       /\ UNCHANGED <<dataframe, args, yticklabels, tickpad, bands, texts>>

(***************************************************************************)
(* draw_pval_right and draw_ylabel2                                        *)
(***************************************************************************)
ExtraPadPct == 5

\* ax.get_xlim()[1] * (1 + extrapad), in hundredths
XOffset100 == xlim[2] * (100 + ExtraPadPct)

YLabel(label) == [kind |-> "label", label |-> label, v |-> 0]
YIndex(v) == [kind |-> "index", label |-> <<>>, v |-> v]
YLimUpper == [kind |-> "ylim[1]", label |-> <<>>, v |-> 0]

Text(x100, y, s, ha, va, fontweight, fontsize, fontfamily) ==
    [x100 |-> x100, y |-> y, s |-> s, ha |-> ha, va |-> va,
     fontweight |-> fontweight, fontsize |-> fontsize, fontfamily |-> fontfamily]

PvalTextRaw(v) == v

\* the string drawn for a formatted p-value
PvalText(v) == IF IsNa(v) THEN Str(<<>>) ELSE v

PvalRowText(row) ==
    Text(XOffset100, YLabel(row.yticklabel), PvalText(row.formatted_pval),
         "left", "center", "rc", "rc", "rc")

\* the title of the column, at the pad the loop left behind
PvalTitle(pad100) ==
    IF ~args.pval_title THEN <<>>
    ELSE IF ~args.annoteheaders
    THEN <<Text(pad100, YLimUpper, Str(<<"P">>), "rc", "rc", "bold", "10", "rc")>>
    ELSE <<Text(pad100, YIndex(Len(yticklabels) - 1), Str(<<"P">>), "left", "center",
                "bold", "10", "rc")>>

Range(q) == {q[i] : i \in 1..Len(q)}

draw_pval_right(pad) ==
    LET rows == [i \in 1..Len(dataframe) |-> PvalRowText(dataframe[i])]
        \* `pad` is reassigned by every iteration of the loop
        pad100 == IF Len(dataframe) = 0 THEN 100 * pad ELSE XOffset100
        drawn == IF args.pval THEN rows \o PvalTitle(pad100) ELSE <<>>
    IN /\ texts' = texts \cup Range(drawn)
       /\ call' = Called("draw_pval_right", "", <<>>, drawn, pad, <<>>)
       /\ UNCHANGED <<dataframe, args, yticklabels, tickpad, xlim, xaxis, bands>>

\* the text of row ix (the DataFrame's 0-based index)
YLabel2RowText(row, ix, group_row_ix) ==
    IF ix = group_row_ix
    THEN Text(XOffset100, YLabel(row.yticklabel), row.yticklabel2, "left", "center",
              args.grouplab.fontweight, args.grouplab.size, "monospace")
    ELSE Text(XOffset100, YLabel(row.yticklabel), row.yticklabel2, "left", "center",
              "rc", "rc", "monospace")

draw_ylabel2 ==
    LET group_row_ix == Len(dataframe) - 1
        drawn == [i \in 1..Len(dataframe) |->
                     YLabel2RowText(dataframe[i], i - 1, group_row_ix)]
    IN /\ texts' = texts \cup Range(drawn)
       /\ call' = Called("draw_ylabel2", "", <<>>, drawn, 0, <<>>)
       /\ UNCHANGED <<dataframe, args, yticklabels, tickpad, xlim, xaxis, bands>>

(***************************************************************************)
(* The annotation scenario: a table with formatted p-values and second     *)
(* labels, some of them missing; the right-hand texts are drawn before and *)
(* after format_xticks moves the x-limits.                                 *)
(***************************************************************************)
TextRows ==
    { [yticklabel |-> TextA, group |-> NaN, ll |-> Num(1), hl |-> Num(3),
       formatted_pval |-> Str(<<"0", ".", "1">>), yticklabel2 |-> NaN],
      [yticklabel |-> TextX, group |-> NaN, ll |-> Num(-1), hl |-> Num(2),
       formatted_pval |-> NaN, yticklabel2 |-> Str(<<"n">>)],
      [yticklabel |-> TextB, group |-> NaN, ll |-> NumNaN, hl |-> NumNaN,
       formatted_pval |-> NaN, yticklabel2 |-> NaN],
      [yticklabel |-> TextX, group |-> NaN, ll |-> Num(-2), hl |-> Num(4),
       formatted_pval |-> Str(<<"0", ".", "5">>), yticklabel2 |-> Str(<<"m">>)] }

TextArgs ==
    { [groupvar |-> FALSE, annoteheaders |-> ah, right_annoteheaders |-> FALSE,
       grouplab |-> DefaultStyle, tableheader |-> DefaultStyle, row_color |-> "black",
       pval |-> pv, pval_title |-> pt, flush |-> FALSE, xticks |-> FALSE] :
      ah \in BOOLEAN, pv \in BOOLEAN, pt \in BOOLEAN }

\* the pads the caller hands to draw_pval_right
PadArgs == {0, 7}

InitText ==
    /\ dataframe \in SeqsUpTo(TextRows, MaxTextRows)
    /\ args \in TextArgs
    /\ yticklabels = TicksOf(dataframe)
    /\ tickpad = 3
    /\ xlim = <<0, 1>>
    /\ xaxis = DefaultXaxis
    /\ bands = {}
    /\ texts = {}
    /\ call = NoCall

NextText ==
    \/ \E pad \in PadArgs : draw_pval_right(pad)
    \/ draw_ylabel2
    \/ format_xticks

SpecText == InitText /\ [][NextText]_vars

(***************************************************************************)
(* Properties of the right-hand texts.                                     *)
(***************************************************************************)
NRows == Len(dataframe)

AfterPval == call.op = "draw_pval_right" /\ args.pval

\* C4: draw_pval_right with a non-null pval column draws one text per row, at
\* x = 1.05 * the upper x-limit and y = the row's position, left-aligned and
\* vertically centred; the text is the row's formatted p-value when it is not
\* missing and the empty string when it is missing.
C4_PvalPlacement ==
    AfterPval =>
        /\ Len(call.drawn) >= NRows
        /\ \A i \in 1..NRows :
              LET t == call.drawn[i]
                  v == dataframe[i].formatted_pval
              IN /\ t.x100 = 105 * xlim[2]
                 /\ t.y = YLabel(dataframe[i].yticklabel)
                 /\ t.ha = "left"
                 /\ t.va = "center"
                 /\ t.s = IF v.kind = "str" THEN v ELSE Str(<<>>)

C4_Witness ==
    /\ AfterPval
    /\ NRows >= 2
    /\ \E i \in 1..NRows : dataframe[i].formatted_pval.kind = "float"
    /\ \E i \in 1..NRows : call.drawn[i].s = Str(<<"0", ".", "1">>)
    /\ xlim # <<0, 1>>

\* C8 as stated: every text drawn by draw_pval_right (the rows' p-values and
\* the column title) and by draw_ylabel2 is placed at x = 1.05 * the upper
\* x-limit in effect at the call, never at the pad passed in, also for a table
\* with zero rows.
C8_TextsAtCurrentLimit ==
    (call.op \in {"draw_pval_right", "draw_ylabel2"}) =>
        \A i \in 1..Len(call.drawn) : call.drawn[i].x100 = 105 * xlim[2]

\* C9 as stated: draw_ylabel2 draws exactly one text per row at the row's
\* position, and the text of a row whose second label is missing is the empty
\* string, for the bold last row as for the others.
C9_MissingLabel2DrawnEmpty ==
    call.op = "draw_ylabel2" =>
        /\ Len(call.drawn) = NRows
        /\ \A i \in 1..NRows :
              /\ call.drawn[i].y = YLabel(dataframe[i].yticklabel)
              /\ (dataframe[i].yticklabel2.kind = "float" => call.drawn[i].s = Str(<<>>))

(***************************************************************************)
(* right_flush_yticklabels                                                 *)
(***************************************************************************)
\* T.label.get_window_extent(renderer).width: the labels are set in a
\* monospace font, the width is counted in glyph advances
WindowExtentWidth(tick) == Len(tick.text)

RECURSIVE MinWidth(_)
MinWidth(ws) ==
    IF Len(ws) = 1 THEN Head(ws)
    ELSE LET m == MinWidth(Tail(ws)) IN IF Head(ws) < m THEN Head(ws) ELSE m

\* max() over the widths of the major ticks (of a sequence that is not empty)
RECURSIVE MaxWidth(_)
MaxWidth(ws) ==
    IF Len(ws) = 1 THEN Head(ws)
    ELSE LET m == MaxWidth(Tail(ws)) IN IF Head(ws) > m THEN Head(ws) ELSE m

\* ax.set_yticklabels(dataframe[yticklabel], fontfamily=fontfamily, ha=...)
SetYTickLabels(labels, ha) ==
    [i \in 1..Len(labels) |->
        [(IF i <= Len(yticklabels) THEN yticklabels[i] ELSE NewTick(labels[i]))
            EXCEPT !.text = labels[i], !.fontfamily = "monospace", !.ha = ha]]

right_flush_yticklabels ==
    LET majorTicks == SetYTickLabels(Column(dataframe, "yticklabel"),
                                     IF args.flush THEN "left" ELSE "right")
        widths == [i \in 1..Len(majorTicks) |-> WindowExtentWidth(majorTicks[i])]
    IN /\ yticklabels' = majorTicks
       /\ IF widths = <<>>
          THEN \* max() of an empty sequence
               /\ tickpad' = tickpad
               /\ call' = Called("right_flush_yticklabels", "ValueError", <<>>, {}, 0,
                                 tickpad)
          ELSE LET pad == MaxWidth(widths)
               IN /\ tickpad' = IF args.flush THEN pad ELSE tickpad
                  /\ call' = Called("right_flush_yticklabels", "", <<pad>>, {}, 0, tickpad)
       /\ UNCHANGED <<dataframe, args, xlim, xaxis, bands, texts>>

(***************************************************************************)
(* The layout scenario: labels of different lengths, interval bounds (some *)
(* rows have none), and the two functions that measure and set the axes.   *)
(***************************************************************************)
TextLong == <<"l", "o", "n", "g", "e", "r">>

LayoutRows ==
    { [yticklabel |-> TextX, group |-> NaN, ll |-> NumNaN, hl |-> NumNaN,
       formatted_pval |-> NaN, yticklabel2 |-> NaN],
      [yticklabel |-> TextB, group |-> NaN, ll |-> Num(1), hl |-> Num(3),
       formatted_pval |-> NaN, yticklabel2 |-> NaN],
      [yticklabel |-> TextLong, group |-> NaN, ll |-> Num(-1), hl |-> Num(2),
       formatted_pval |-> NaN, yticklabel2 |-> NaN],
      [yticklabel |-> TextA, group |-> NaN, ll |-> Num(-2), hl |-> Num(0),
       formatted_pval |-> NaN, yticklabel2 |-> NaN] }

LayoutArgs ==
    { [groupvar |-> FALSE, annoteheaders |-> FALSE, right_annoteheaders |-> FALSE,
       grouplab |-> DefaultStyle, tableheader |-> DefaultStyle, row_color |-> "black",
       pval |-> FALSE, pval_title |-> TRUE, flush |-> fl, xticks |-> xt] :
      fl \in BOOLEAN, xt \in BOOLEAN }

InitLayout ==
    /\ dataframe \in SeqsUpTo(LayoutRows, MaxLayoutRows)
    /\ args \in LayoutArgs
    /\ yticklabels = TicksOf(dataframe)
    /\ tickpad = 3
    /\ xlim \in {<<0, 1>>, <<-5, 5>>}
    /\ xaxis = DefaultXaxis
    /\ bands = {}
    /\ texts = {}
    /\ call = NoCall

NextLayout == right_flush_yticklabels \/ format_xticks

SpecLayout == InitLayout /\ [][NextLayout]_vars

(***************************************************************************)
(* Properties of the layout.                                               *)
(***************************************************************************)
AfterFlush == call.op = "right_flush_yticklabels"

LabelWidths == {Len(dataframe[i].yticklabel) : i \in 1..NRows}

\* C5: right_flush_yticklabels returns the maximum measured width over all
\* primary tick labels in both modes; with flush it also sets the tick padding
\* to exactly that maximum, without flush the tick padding stays what it was
\* before the call.
C5_PadIsMaxWidth ==
    AfterFlush =>
        /\ call.raised = "" =>
              /\ Len(call.ret) = 1
              /\ call.ret[1] \in LabelWidths
              /\ \A w \in LabelWidths : w <= call.ret[1]
              /\ args.flush => tickpad = call.ret[1]
        /\ ~args.flush => tickpad = call.before

C5_Witness ==
    /\ AfterFlush
    /\ call.raised = ""
    /\ Cardinality(LabelWidths) >= 2
    /\ args.flush
    /\ tickpad = 6
    /\ call.before = 3

\* C6 as stated: with zero rows right_flush_yticklabels raises no failure and
\* returns a zero pad.
C6_ZeroRowsZeroPad ==
    (AfterFlush /\ NRows = 0) => (call.raised = "" /\ call.ret = <<0>>)

AfterXticks == call.op = "format_xticks" /\ call.raised = ""

LowValues == {dataframe[i].ll.v : i \in {j \in 1..NRows : ~dataframe[j].ll.nan}}

HighValues == {dataframe[i].hl.v : i \in {j \in 1..NRows : ~dataframe[j].hl.nan}}

\* C7: after format_xticks the x-limits are exactly [minimum of the low-bound
\* column, maximum of the high-bound column], whatever they were before and
\* whether or not xticks are given, and a second call with the same input
\* leaves them the same.
C7_LimitsAreMinMax ==
    /\ [](AfterXticks =>
            /\ xlim[1] \in LowValues
            /\ \A v \in LowValues : xlim[1] <= v
            /\ xlim[2] \in HighValues
            /\ \A v \in HighValues : v <= xlim[2])
    /\ [][(AfterXticks /\ AfterXticks') => xlim' = xlim]_vars

C7_Witness ==
    /\ AfterXticks
    /\ NRows >= 2
    /\ xlim = <<-2, 3>>
    /\ call.before = xlim
    /\ \E i \in 1..NRows : dataframe[i].ll.nan

====
